---------------------------- MODULE Spec2Model ----------------------------
(***************************************************************************)
(* Model of sdc3_simdata_downloader.py: the unsigned S3 ListObjectsV2      *)
(* pagination walk (list_objects_v2, iter_all_objects), the three          *)
(* consumers of the walk (list_recursive, build_tree + print_tree,         *)
(* download_prefix + download_object) and the dispatch in main.            *)
(*                                                                         *)
(* Strings that the code inspects character by character (keys, prefixes,  *)
(* directory names) are sequences of character codes.  An optional value   *)
(* is <<>> (Python None, or an absent XML element) or <<v>>.               *)
(***************************************************************************)
EXTENDS Integers, Sequences, FiniteSets, TLC

VARIABLES
    args,        \* the parsed command line (argparse namespace)
    bucket,      \* the remote bucket: the <Contents> elements, in the server's order
    conforming,  \* TRUE: the server sends NextContinuationToken with every truncated page
    fs,          \* destination directory: full key -> byte length of the local file
    pc,          \* "main", "walk" (inside iter_all_objects), "raised", "exit"
    mode,        \* "", "list", "tree", "download": the branch of main that runs
    token,       \* iter_all_objects: token
    more,        \* iter_all_objects: the while loop has not hit its break
    pending,     \* iter_all_objects: keys of the current page not yet yielded
    reqs,        \* log: the continuation token of every listing request of this run
    pages,       \* log: the dicts list_objects_v2 returned in this run, in order
    out,         \* log: the entries yielded so far
    count,       \* list_recursive: count
    total_bytes, \* list_recursive: total_bytes
    tree,        \* build_tree: path -> TreeNode, the root at <<>>
    lines,       \* print_tree: the lines printed
    downloaded,  \* download_prefix: downloaded
    skipped,     \* download_prefix: skipped
    total,       \* download_prefix: total
    gets,        \* log: number of object GETs issued in this run
    last,        \* log: the latest download_object call
    written,     \* log: keys whose file was written to the end in this run
    statFault,   \* log: a filesystem error hit a size check in this run
    truncated,   \* log: keys whose fetch failed mid-body in an earlier or this run
    err,         \* "", or what raised: "list", "get"
    exitCode,    \* <<>> while running, <<n>> once the process has exited
    completed,   \* the mode whose branch of main ran to its end, "" if none
    runs,        \* number of invocations so far
    prevOk       \* the previous invocation exited with code 0

vars == <<args, bucket, conforming, fs, pc, mode, token, more, pending, reqs,
          pages, out, count, total_bytes, tree, lines, downloaded, skipped,
          total, gets, last, written, statFault, truncated, err, exitCode,
          completed, runs, prevOk>>

----------------------------------------------------------------------------
(* Bounds of the model *)

MaxObjs == 3      \* objects in the bucket
MaxPage == 2      \* keys per listing page
MaxReqs == 4      \* listing requests per run
MaxRuns == 2      \* invocations of the program against the same destination
MaxDlObjs == 2    \* objects in the bucket of the download runs
MaxLocal == 2     \* byte length of a file found in the destination at the start

----------------------------------------------------------------------------
(* Strings *)

Slash == 47

None == <<>>
Some(v) == <<v>>
Get(o) == o[1]

Min(a, b) == IF a < b THEN a ELSE b

StartsWith(s, p) == Len(p) <= Len(s) /\ SubSeq(s, 1, Len(p)) = p

EndsWith(s, c) == Len(s) > 0 /\ s[Len(s)] = c

RECURSIVE LStrip(_, _)
LStrip(s, c) == IF Len(s) > 0 /\ s[1] = c THEN LStrip(Tail(s), c) ELSE s

RECURSIVE RStrip(_, _)
RStrip(s, c) == IF EndsWith(s, c) THEN RStrip(SubSeq(s, 1, Len(s) - 1), c) ELSE s

RECURSIVE SplitFrom(_, _, _, _)
SplitFrom(s, sep, i, cur) ==
    IF i > Len(s) THEN <<cur>>
    ELSE IF s[i] = sep THEN <<cur>> \o SplitFrom(s, sep, i + 1, <<>>)
    ELSE SplitFrom(s, sep, i + 1, Append(cur, s[i]))

\* str.split(sep)
Split(s, sep) == SplitFrom(s, sep, 1, <<>>)

\* str.lower() on ASCII
LowerChar(c) == IF c >= 65 /\ c <= 90 THEN c + 32 ELSE c
Lower(s) == [i \in DOMAIN s |-> LowerChar(s[i])]

\* Python's order on str: code point by code point, a proper prefix first
RECURSIVE StrLess(_, _)
StrLess(a, b) ==
    IF Len(b) = 0 THEN FALSE
    ELSE IF Len(a) = 0 THEN TRUE
    ELSE IF a[1] # b[1] THEN a[1] < b[1]
    ELSE StrLess(Tail(a), Tail(b))

\* normalize_prefix(p)
normalize_prefix(p) ==
    IF p = None \/ Get(p) = <<>> THEN <<>>
    ELSE LET q == LStrip(Get(p), Slash)
         IN IF Len(q) > 0 /\ ~EndsWith(q, Slash) THEN Append(q, Slash) ELSE q

\* prefix = normalize_prefix(args.prefix) (main, line 301)
Prefix == normalize_prefix(args.prefix)

----------------------------------------------------------------------------
(* The server and list_objects_v2 *)

\* The text of the IsTruncated element, lower-cased
LowerText(t) == IF t \in {"true", "True", "TRUE"} THEN "true" ELSE "false"

\* The XML bodies the server can answer a listing request with: the objects
\* under the prefix from the cursor on, cut after any number of keys >= 1.
\* A bare first request (no token) starts at the beginning of the listing.
ServerResponses(prefix, tok) ==
    LET listing == SelectSeq(bucket, LAMBDA c : c.Key = None \/ StartsWith(Get(c.Key), prefix))
        start   == IF tok = None THEN 0 ELSE Get(tok)
        rem     == Len(listing) - start
        sizes   == IF rem <= 0 THEN {0} ELSE 1..Min(rem, MaxPage)
    IN  UNION { LET trunc == start + n < Len(listing)
                IN { [Contents |-> SubSeq(listing, start + 1, start + n),
                      IsTruncated |-> t,
                      NextContinuationToken |-> nt]
                     : t  \in (IF trunc THEN {Some("true"), Some("True")}
                                        ELSE {Some("false"), None}),
                       nt \in (IF trunc
                               THEN {Some(start + n)} \cup
                                    (IF conforming THEN {} ELSE {None})
                               ELSE {None}) }
              : n \in sizes }

\* keys: the Contents elements that have a Key; a missing Size reads as -1
RECURSIVE ParseContents(_)
ParseContents(cs) ==
    IF cs = <<>> THEN <<>>
    ELSE LET c == Head(cs)
         IN IF c.Key = None THEN ParseContents(Tail(cs))
            ELSE << [key  |-> Get(c.Key),
                     size |-> IF c.Size # None THEN Get(c.Size) ELSE -1] >>
                 \o ParseContents(Tail(cs))

\* list_objects_v2: the dict returned for one XML body
list_objects_v2(xml) ==
    [keys         |-> ParseContents(xml.Contents),
     is_truncated |-> LowerText(IF xml.IsTruncated = None THEN ""
                                ELSE Get(xml.IsTruncated)) = "true",
     next_token   |-> xml.NextContinuationToken]

----------------------------------------------------------------------------
(* build_tree *)

\* TreeNode.__init__ ; children holds the dict's keys in insertion order, the
\* child named d of the node at path p is the node at path p \o <<d>>
TreeNode(name) ==
    [name |-> name, children |-> <<>>, file_count |-> 0, total_size |-> 0]

InSeq(x, s) == \E i \in DOMAIN s : s[i] = x

\* _get_or_create_child(node, part), node being the node at path
get_or_create_child(t, path, part) ==
    IF InSeq(part, t[path].children) THEN t
    ELSE [t EXCEPT ![path].children = Append(@, part)]
         @@ (Append(path, part) :> TreeNode(part))

\* for d in parts[:-1]: cur = _get_or_create_child(cur, d)
RECURSIVE CreateChain(_, _, _)
CreateChain(t, cur, ds) ==
    IF ds = <<>> THEN t
    ELSE CreateChain(get_or_create_child(t, cur, Head(ds)),
                     Append(cur, Head(ds)), Tail(ds))

\* An aggregation that credits only the directory holding the file
AggregateParentOnly(t, walk, ds, size) ==
    IF ds = <<>> THEN t
    ELSE [t EXCEPT ![ds].file_count = @ + 1,
                   ![ds].total_size = IF size > 0 THEN @ + size ELSE @]

\* for d in parts[:-1]: walk = walk.children[d]; walk.file_count += 1; ...
RECURSIVE Aggregate(_, _, _, _)
Aggregate(t, walk, ds, size) ==
    IF ds = <<>> THEN t
    ELSE LET w == Append(walk, Head(ds))
         IN Aggregate([t EXCEPT ![w].file_count = @ + 1,
                                ![w].total_size = IF size > 0 THEN @ + size ELSE @],
                      w, Tail(ds), size)

\* rel = key[preflen:] if preflen and key.startswith(prefix) else key
RelPath(prefix, key) ==
    IF Len(prefix) > 0 /\ StartsWith(key, prefix)
    THEN SubSeq(key, Len(prefix) + 1, Len(key)) ELSE key

\* parts = [p for p in rel.split("/") if p]
Parts(rel) == SelectSeq(Split(rel, Slash), LAMBDA p : p # <<>>)

\* parts[:-1]
AllButLast(s) == SubSeq(s, 1, Len(s) - 1)

\* A root update that counts only the files of known, positive size
AddToRootIfSized(t, size) ==
    IF size > 0
    THEN [t EXCEPT ![<<>>].file_count = @ + 1, ![<<>>].total_size = @ + size]
    ELSE t

\* root.file_count += 1; if size > 0: root.total_size += size
AddToRoot(t, size) ==
    [t EXCEPT ![<<>>].file_count = @ + 1,
              ![<<>>].total_size = IF size > 0 THEN @ + size ELSE @]

\* One iteration of build_tree's loop, on the entry (key, size)
build_tree(t, prefix, key, size) ==
    LET parts == Parts(RelPath(prefix, key))
        t1 == IF Len(parts) > 1 THEN CreateChain(t, <<>>, AllButLast(parts)) ELSE t
        t2 == Aggregate(t1, <<>>, AllButLast(parts), size)
    IN AddToRoot(t2, size)

\* root = TreeNode(prefix.rstrip("/")) if prefix else TreeNode("")
NewRoot(prefix) == (<<>> :> TreeNode(RStrip(prefix, Slash)))

\* build_tree over a whole sequence of entries
RECURSIVE BuildFrom(_, _, _)
BuildFrom(t, prefix, es) ==
    IF es = <<>> THEN t
    ELSE BuildFrom(build_tree(t, prefix, Head(es).key, Head(es).size),
                   prefix, Tail(es))

----------------------------------------------------------------------------
(* print_tree *)

\* The glyphs; the box-drawing characters are written by their code points
Glyphs(ascii_mode) ==
    IF ascii_mode
    THEN [BRANCH_LAST |-> "+-- ", BRANCH_MID |-> "+-- ",
          TRUNK |-> "|   ", INDENT |-> "    "]
    ELSE [BRANCH_LAST |-> "u2514u2500u2500 ", BRANCH_MID |-> "u251Cu2500u2500 ",
          TRUNK |-> "u2502   ", INDENT |-> "    "]

\* while f >= 1024 and i < len(units) - 1: f /= 1024.0; i += 1
RECURSIVE UnitIndex(_, _, _)
UnitIndex(n, scale, i) ==
    IF n >= 1024 * scale /\ i < 4 THEN UnitIndex(n, 1024 * scale, i + 1) ELSE i

RECURSIVE Pow1024(_)
Pow1024(i) == IF i = 0 THEN 1 ELSE 1024 * Pow1024(i - 1)

\* human_bytes(n): f"{f:.2f} {units[i]}", the number kept in hundredths
human_bytes(n) ==
    LET units == <<"B", "KB", "MB", "GB", "TB">>
        i == UnitIndex(n, 1, 0)
    IN [value |-> (200 * n + Pow1024(i)) \div (2 * Pow1024(i)),
        decimals |-> 2, unit |-> units[i + 1]]

\* human_bytes(tn.total_size) if tn.file_count > 0 else "0 B"
size_str(tn) ==
    IF tn.file_count > 0 THEN human_bytes(tn.total_size)
    ELSE [value |-> 0, decimals |-> 0, unit |-> "B"]

\* sorted() is stable: s goes after every element whose key is not greater
RECURSIVE InsertByLower(_, _)
InsertByLower(sorted, s) ==
    IF sorted = <<>> THEN <<s>>
    ELSE IF StrLess(Lower(s), Lower(Head(sorted))) THEN <<s>> \o sorted
    ELSE <<Head(sorted)>> \o InsertByLower(Tail(sorted), s)

RECURSIVE SortedByLower(_)
SortedByLower(ks) ==
    IF ks = <<>> THEN <<>>
    ELSE InsertByLower(SortedByLower(AllButLast(ks)), ks[Len(ks)])

\* _sorted_children(n): the names of n's children, in the order they are walked
sorted_children(n) == SortedByLower(n.children)

\* _emit_line(prefix, name, tn, is_last)
emit_line(g, prefix, name, tn, is_last) ==
    [prefix |-> prefix,
     branch |-> IF is_last THEN g.BRANCH_LAST ELSE g.BRANCH_MID,
     name   |-> name, files |-> tn.file_count, size |-> size_str(tn)]

\* _walk(n, prefix), n being the node at path; kids[i..] are still to visit
RECURSIVE walk_kids(_, _, _, _, _, _)
walk_kids(t, g, path, prefix, kids, i) ==
    IF i > Len(kids) THEN <<>>
    ELSE LET child   == Append(path, kids[i])
             is_last == (i = Len(kids))
             next_prefix == Append(prefix, IF is_last THEN g.INDENT ELSE g.TRUNK)
         IN <<emit_line(g, prefix, t[child].name, t[child], is_last)>>
            \o walk_kids(t, g, child, next_prefix, sorted_children(t[child]), 1)
            \o walk_kids(t, g, path, prefix, kids, i + 1)

\* print_tree(node, base_label, ascii_mode): the lines written
print_tree(t, base_label, ascii_mode) ==
    LET g == Glyphs(ascii_mode)
    IN << [prefix |-> <<>>, branch |-> "", name |-> base_label,
           files |-> t[<<>>].file_count, size |-> size_str(t[<<>>])] >>
       \o walk_kids(t, g, <<>>, <<>>, sorted_children(t[<<>>]), 1)

\* label.rstrip("/") in main; the tenant:bucket part is the constant "b"
base_label(prefix) ==
    RStrip(<<98>> \o (IF prefix # <<>> THEN <<Slash>> \o prefix ELSE <<>>), Slash)

----------------------------------------------------------------------------
(* download_object *)

\* The byte length of the object stored under key
BodyLen(key) ==
    LET i == CHOOSE i \in DOMAIN bucket : bucket[i].Key = Some(key)
    IN bucket[i].Length

\* A check that accepts any local file at least as long as the object
SizeAtLeast(f, key, size, oserror) ==
    key \in DOMAIN f /\ ~oserror /\ f[key] >= size

\* A check that accepts any local file, whatever its length
FileExists(f, key, size, oserror) ==
    key \in DOMAIN f /\ ~oserror

\* A check that takes a size of 0 for an unknown size ("if size and ...")
SizeMatchesUnlessZero(f, key, size, oserror) ==
    size # 0 /\ key \in DOMAIN f /\ ~oserror /\ f[key] = size

\* size is not None and os.path.exists(local_path) and
\* os.path.getsize(local_path) == int(size), an OSError reading as no match.
\* download_prefix always passes an int, so "size is not None" is true.
SizeMatches(f, key, size, oserror) ==
    /\ key \in DOMAIN f
    /\ ~oserror
    /\ f[key] = size

\* What http_get(url, stream_to=local_path) can leave behind:
\* "ok": the whole body written; "refused": urlopen or open raised, the file
\* is untouched; "cut": the stream broke after n bytes were written.
FetchOutcomes(f, key) ==
    { [how |-> "ok", fs |-> (key :> BodyLen(key)) @@ f],
      [how |-> "refused", fs |-> f] }
    \cup { [how |-> "cut", fs |-> (key :> n) @@ f] : n \in 0..BodyLen(key) }

----------------------------------------------------------------------------
(* main *)

\* A dispatch without the "No action selected" exit
SelectModeNoExit(a) ==
    IF a.list THEN "list" ELSE IF a.tree THEN "tree" ELSE "download"

\* The branch of main the flags select: --list first, then --tree, then the
\* download unless neither --all nor --prefix is given ("": no action)
SelectMode(a) ==
    IF a.list THEN "list"
    ELSE IF a.tree THEN "tree"
    ELSE IF ~a.all /\ a.prefix = None THEN ""
    ELSE "download"

\* The prefix the walk is called with: prefix, or scope in the download branch
Scope == IF mode = "download" /\ args.all THEN <<>> ELSE Prefix

\* if not page["is_truncated"]: break
KeepGoing(page) == page.is_truncated

\* token = page["next_token"], reached only when the loop goes on
NextToken(page) == IF KeepGoing(page) THEN page.next_token ELSE token

\* A walk that loses the first key of every page
YieldsButFirst(page) == IF page.keys = <<>> THEN <<>> ELSE Tail(page.keys)

\* for k in page["keys"]: yield k
Yields(page) == page.keys

NoCall ==
    [key |-> <<>>, size |-> 0, before |-> None, oserror |-> FALSE,
     result |-> "", gets0 |-> 0]

NoFiles == [k \in {} |-> 0]

\* The state of a freshly started process
Fresh ==
    /\ pc = "main" /\ mode = "" /\ token = None /\ more = TRUE
    /\ pending = <<>> /\ reqs = <<>> /\ pages = <<>> /\ out = <<>>
    /\ count = 0 /\ total_bytes = 0
    /\ tree = NewRoot(<<>>) /\ lines = <<>>
    /\ downloaded = 0 /\ skipped = 0 /\ total = 0
    /\ gets = 0 /\ last = NoCall /\ written = {} /\ statFault = FALSE
    /\ err = "" /\ exitCode = None /\ completed = ""

world == <<args, bucket, conforming, runs, prevOk>>

walkvars == <<token, more, pending, reqs, pages, out>>
listvars == <<count, total_bytes>>
treevars == <<tree, lines>>
dlvars   == <<fs, downloaded, skipped, total, gets, last, written, statFault,
              truncated>>

\* main up to the branch it takes
Main ==
    /\ pc = "main"
    /\ mode' = SelectMode(args)
    /\ IF SelectMode(args) = ""
       THEN pc' = "exit" /\ exitCode' = Some(1)
       ELSE pc' = "walk" /\ exitCode' = exitCode
    /\ tree' = IF SelectMode(args) = "tree" THEN NewRoot(Prefix) ELSE tree
    /\ UNCHANGED <<world, walkvars, listvars, lines, dlvars, err, completed>>

\* iter_all_objects: one list_objects_v2 call that returns a page
ListPage ==
    /\ pc = "walk" /\ pending = <<>> /\ more
    /\ Len(reqs) < MaxReqs
    /\ \E xml \in ServerResponses(Scope, token) :
         LET page == list_objects_v2(xml)
         IN /\ reqs' = Append(reqs, token)
            /\ pages' = Append(pages, page)
            /\ pending' = Yields(page)
            /\ more' = KeepGoing(page)
            /\ token' = NextToken(page)
    /\ UNCHANGED <<world, pc, mode, out, listvars, treevars, dlvars, err,
                   exitCode, completed>>

\* iter_all_objects: one list_objects_v2 call that raises (HTTP status,
\* network error, unparsable XML)
ListFail ==
    /\ pc = "walk" /\ pending = <<>> /\ more
    /\ Len(reqs) < MaxReqs
    /\ reqs' = Append(reqs, token)
    /\ err' = "list"
    /\ pc' = "raised"
    /\ UNCHANGED <<world, mode, token, more, pending, pages, out, listvars,
                   treevars, dlvars, exitCode, completed>>

\* list_recursive: the loop body on the next entry yielded
ListEntry ==
    /\ pc = "walk" /\ mode = "list" /\ pending # <<>>
    /\ LET e == Head(pending)
       IN /\ out' = Append(out, e)
          /\ pending' = Tail(pending)
          /\ count' = count + 1
          /\ total_bytes' = IF e.size > 0 THEN total_bytes + e.size ELSE total_bytes
    /\ UNCHANGED <<world, pc, mode, token, more, reqs, pages, treevars, dlvars,
                   err, exitCode, completed>>

\* build_tree: the loop body on the next entry yielded
TreeEntry ==
    /\ pc = "walk" /\ mode = "tree" /\ pending # <<>>
    /\ LET e == Head(pending)
       IN /\ out' = Append(out, e)
          /\ pending' = Tail(pending)
          /\ tree' = build_tree(tree, Prefix, e.key, e.size)
    /\ UNCHANGED <<world, pc, mode, token, more, reqs, pages, listvars, lines,
                   dlvars, err, exitCode, completed>>

\* download_prefix: the loop body on the next entry yielded, download_object
\* returning (the file skipped, or fetched to its end)
DownloadEntry ==
    /\ pc = "walk" /\ mode = "download" /\ pending # <<>>
    /\ LET e == Head(pending)
       IN \E oserror \in (IF e.key \in DOMAIN fs THEN BOOLEAN ELSE {FALSE}) :
            /\ out' = Append(out, e)
            /\ pending' = Tail(pending)
            /\ total' = total + 1
            /\ statFault' = (statFault \/ oserror)
            /\ IF SizeMatches(fs, e.key, e.size, oserror)
               THEN /\ skipped' = skipped + 1
                    /\ last' = [key |-> e.key, size |-> e.size,
                                before |-> Some(fs[e.key]), oserror |-> oserror,
                                result |-> "skip", gets0 |-> gets]
                    /\ UNCHANGED <<fs, downloaded, gets, written>>
               ELSE \E o \in FetchOutcomes(fs, e.key) :
                    /\ o.how = "ok"
                    /\ fs' = o.fs
                    /\ gets' = gets + 1
                    /\ downloaded' = downloaded + 1
                    /\ written' = written \cup {e.key}
                    /\ last' = [key |-> e.key, size |-> e.size,
                                before |-> IF e.key \in DOMAIN fs
                                           THEN Some(fs[e.key]) ELSE None,
                                oserror |-> oserror,
                                result |-> "get", gets0 |-> gets]
                    /\ UNCHANGED skipped
    /\ UNCHANGED <<world, pc, mode, token, more, reqs, pages, listvars,
                   treevars, truncated, err, exitCode, completed>>

\* A download loop that swallows the error of a fetch and goes on
DownloadRaiseGoesOn ==
    /\ pc = "walk" /\ mode = "download" /\ pending # <<>>
    /\ LET e == Head(pending)
       IN \E oserror \in (IF e.key \in DOMAIN fs THEN BOOLEAN ELSE {FALSE}) :
            /\ ~SizeMatches(fs, e.key, e.size, oserror)
            /\ \E o \in FetchOutcomes(fs, e.key) :
                 /\ o.how # "ok"
                 /\ fs' = o.fs
                 /\ last' = [key |-> e.key, size |-> e.size,
                             before |-> IF e.key \in DOMAIN fs
                                        THEN Some(fs[e.key]) ELSE None,
                             oserror |-> oserror,
                             result |-> "raise", gets0 |-> gets]
            /\ out' = Append(out, e)
            /\ pending' = Tail(pending)
            /\ total' = total + 1
            /\ gets' = gets + 1
    /\ UNCHANGED <<world, pc, mode, token, more, reqs, pages, listvars,
                   treevars, downloaded, skipped, written, statFault,
                   truncated, err, exitCode, completed>>

\* download_prefix: the loop body on the next entry yielded, http_get raising
\* inside download_object; nothing catches it before main
DownloadRaise ==
    /\ pc = "walk" /\ mode = "download" /\ pending # <<>>
    /\ LET e == Head(pending)
       IN \E oserror \in (IF e.key \in DOMAIN fs THEN BOOLEAN ELSE {FALSE}) :
            /\ ~SizeMatches(fs, e.key, e.size, oserror)
            /\ \E o \in FetchOutcomes(fs, e.key) :
                 /\ o.how # "ok"
                 /\ fs' = o.fs
                 /\ truncated' = IF o.how = "cut" /\ o.fs[e.key] < BodyLen(e.key)
                                 THEN truncated \cup {e.key} ELSE truncated
                 /\ last' = [key |-> e.key, size |-> e.size,
                             before |-> IF e.key \in DOMAIN fs
                                        THEN Some(fs[e.key]) ELSE None,
                             oserror |-> oserror,
                             result |-> "raise", gets0 |-> gets]
            /\ out' = Append(out, e)
            /\ pending' = Tail(pending)
            /\ total' = total + 1
            /\ statFault' = (statFault \/ oserror)
            /\ gets' = gets + 1
            /\ err' = "get"
            /\ pc' = "raised"
    /\ UNCHANGED <<world, mode, token, more, reqs, pages, listvars, treevars,
                   downloaded, skipped, written, exitCode, completed>>

\* The walk is exhausted: the branch of main runs to its end (for --tree,
\* print_tree first) and the process exits with code 0
Return ==
    /\ pc = "walk" /\ pending = <<>> /\ ~more
    /\ lines' = IF mode = "tree"
                THEN print_tree(tree, base_label(Prefix), args.ascii) ELSE lines
    /\ completed' = mode
    /\ pc' = "exit"
    /\ exitCode' = Some(0)
    /\ UNCHANGED <<world, mode, walkvars, listvars, tree, dlvars, err>>

\* except Exception in main: the message is printed, then sys.exit(2)
Except ==
    /\ pc = "raised"
    /\ pc' = "exit"
    /\ exitCode' = Some(2)
    /\ UNCHANGED <<world, mode, walkvars, listvars, treevars, dlvars, err,
                   completed>>

\* The program is started again with the same command line, against the same
\* bucket and the destination directory as the last run left it
Rerun ==
    /\ pc = "exit"
    /\ runs < MaxRuns
    /\ runs' = runs + 1
    /\ prevOk' = (exitCode = Some(0))
    /\ pc' = "main" /\ mode' = "" /\ token' = None /\ more' = TRUE
    /\ pending' = <<>> /\ reqs' = <<>> /\ pages' = <<>> /\ out' = <<>>
    /\ count' = 0 /\ total_bytes' = 0
    /\ tree' = NewRoot(<<>>) /\ lines' = <<>>
    /\ downloaded' = 0 /\ skipped' = 0 /\ total' = 0
    /\ gets' = 0 /\ last' = NoCall /\ written' = {} /\ statFault' = FALSE
    /\ err' = "" /\ exitCode' = None /\ completed' = ""
    /\ UNCHANGED <<args, bucket, conforming, fs, truncated>>

----------------------------------------------------------------------------
(* Inputs *)

\* The keys of the model's buckets with the byte length of each object.
\* Keys that name files: "p/a/x", "p/A/x", "r"
FileObjects ==
    { [key |-> <<112, 47, 97, 47, 120>>, length |-> 2],
      [key |-> <<112, 47, 65, 47, 120>>, length |-> 1],
      [key |-> <<114>>, length |-> 0] }

\* "p/": a directory marker, the key that equals the prefix "p/"
Marker == <<112, 47>>

\* The file keys, the marker and "p/a//b/x"
Objects ==
    FileObjects \cup
    { [key |-> Marker, length |-> 0],
      [key |-> <<112, 47, 97, 47, 47, 98, 47, 120>>, length |-> 3] }

\* The <Contents> elements a server can list an object as: Size is the
\* object's length, or the element is missing
Listed(objs) ==
    { [Key |-> Some(o.key), Size |-> sz, Length |-> o.length]
      : o \in objs, sz \in {None} } \cup
    { [Key |-> Some(o.key), Size |-> Some(o.length), Length |-> o.length]
      : o \in objs }

\* A <Contents> element without a Key
Keyless == [Key |-> None, Size |-> Some(1), Length |-> 1]

\* Listings of at most n elements with distinct keys, in any order
BucketsOf(elems, n) ==
    UNION { { b \in [1..k -> elems] :
                \A i, j \in 1..k : i # j => b[i].Key # b[j].Key }
            : k \in 0..n }

Buckets(objs, n) == BucketsOf(Listed(objs), n)

\* --prefix absent, "", "p" and "/p/"
PrefixArgs == {None, Some(<<>>), Some(<<112>>), Some(<<47, 112, 47>>)}

InitWorld ==
    /\ runs = 1 /\ prevOk = FALSE /\ truncated = {}
    /\ Fresh

\* Any command line, a fresh destination directory
Init ==
    /\ args \in [list : BOOLEAN, tree : BOOLEAN, all : BOOLEAN,
                 ascii : BOOLEAN, prefix : PrefixArgs]
    /\ bucket \in Buckets(Objects, MaxDlObjs)
    /\ conforming = TRUE
    /\ fs = NoFiles
    /\ InitWorld

Next ==
    \/ Main \/ ListPage \/ ListFail \/ ListEntry \/ TreeEntry
    \/ DownloadEntry \/ DownloadRaise \/ Return \/ Except

Spec == Init /\ [][Next]_vars

\* --list
InitList ==
    /\ args \in [list : {TRUE}, tree : {FALSE}, all : {FALSE},
                 ascii : {FALSE}, prefix : {None, Some(<<112>>)}]
    /\ bucket \in BucketsOf(Listed(FileObjects) \cup {Keyless}, MaxObjs)
    /\ conforming \in BOOLEAN
    /\ fs = NoFiles
    /\ InitWorld

NextList == Main \/ ListPage \/ ListFail \/ ListEntry \/ Return \/ Except

SpecList == InitList /\ [][NextList]_vars

\* --tree
InitTree ==
    /\ args \in [list : {FALSE}, tree : {TRUE}, all : {FALSE},
                 ascii : {FALSE}, prefix : {None, Some(<<112>>)}]
    /\ bucket \in Buckets(Objects, MaxObjs)
    /\ conforming = TRUE
    /\ fs = NoFiles
    /\ InitWorld

NextTree == Main \/ ListPage \/ ListFail \/ TreeEntry \/ Return \/ Except

SpecTree == InitTree /\ [][NextTree]_vars

\* The destination at the start: empty, or holding one file of any length
LocalFiles(b) ==
    {NoFiles} \cup
    { (Get(b[i].Key) :> n) : i \in DOMAIN b, n \in 0..MaxLocal }

\* --all, or --prefix p, run up to MaxRuns times against one destination.
\* The bucket holds file keys: a key ending in "/" names a directory of the
\* destination, which http_get cannot open for writing.
InitDownload ==
    /\ args \in { [list |-> FALSE, tree |-> FALSE, all |-> TRUE,
                   ascii |-> FALSE, prefix |-> None],
                  [list |-> FALSE, tree |-> FALSE, all |-> FALSE,
                   ascii |-> FALSE, prefix |-> Some(<<112>>)] }
    /\ bucket \in Buckets(FileObjects, MaxDlObjs)
    /\ conforming = TRUE
    /\ fs \in LocalFiles(bucket)
    /\ InitWorld

NextDownload ==
    \/ Main \/ ListPage \/ ListFail \/ DownloadEntry \/ DownloadRaise
    \/ Return \/ Except \/ Rerun

SpecDownload == InitDownload /\ [][NextDownload]_vars

----------------------------------------------------------------------------
(* Properties *)

RECURSIVE ConcatKeys(_)
ConcatKeys(ps) == IF ps = <<>> THEN <<>> ELSE Head(ps).keys \o ConcatKeys(Tail(ps))

RECURSIVE SumPos(_)
SumPos(es) ==
    IF es = <<>> THEN 0
    ELSE (IF Head(es).size > 0 THEN Head(es).size ELSE 0) + SumPos(Tail(es))

\* Every order the entries of es can arrive in
Orders(es) ==
    { [i \in 1..Len(es) |-> es[f[i]]] : f \in Permutations(1..Len(es)) }

\* The entries of es below the directory at path: path is a proper leading
\* run of the segments of the entry's prefix-relative key
Below(path, es) ==
    SelectSeq(es, LAMBDA e :
        LET parts == Parts(RelPath(Prefix, e.key))
        IN Len(path) < Len(parts) /\ SubSeq(parts, 1, Len(path)) = path)

\* The listing a server that keeps the contract serves for the walk
Listing == ParseContents(SelectSeq(bucket, LAMBDA c :
               c.Key = None \/ StartsWith(Get(c.Key), Scope)))

TokensSent == \A i \in DOMAIN pages :
                 pages[i].is_truncated => pages[i].next_token # None

\* C1: what iter_all_objects has yielded, followed by what is left of the
\* current page, is the concatenation in request order of the 'keys' lists of
\* the pages received; once the walk is exhausted everything was yielded, and
\* if every truncated page carried its token that is the whole listing under
\* the prefix, each object once and in the server's order.
C1_YieldsConcatenation ==
    /\ out \o pending = ConcatKeys(pages)
    /\ completed # "" => out = ConcatKeys(pages)
    /\ (completed # "" /\ TokensSent) => out = Listing

C1_Witness ==
    /\ completed = "list" /\ Len(pages) >= 2 /\ Len(out) = 3
    /\ Len(pages[1].keys) = 2

\* C2: while build_tree consumes the entries the root's file_count is the
\* number of entries ingested and its total_size the sum of their sizes > 0,
\* and building from any other order of the same entries gives the same root.
C2_RootAggregate ==
    mode = "tree" =>
      /\ tree[<<>>].file_count = Len(out)
      /\ tree[<<>>].total_size = SumPos(out)
      /\ completed = "tree" =>
           \A es \in Orders(out) :
             LET t == BuildFrom(NewRoot(Prefix), Prefix, es)
             IN /\ t[<<>>].file_count = tree[<<>>].file_count
                /\ t[<<>>].total_size = tree[<<>>].total_size

C2_Witness ==
    /\ completed = "tree" /\ Len(out) = 3 /\ Prefix = Marker
    /\ \E i \in DOMAIN out : out[i].key = Prefix
    /\ \E i \in DOMAIN out : out[i].size = -1 /\ out[i].key # Prefix
    /\ tree[<<>>].total_size > 0

\* C3: every directory node other than the root counts exactly the ingested
\* entries that lie below it at any depth, and sums their sizes > 0.
C3_SubtreeAggregate ==
    mode = "tree" =>
      \A path \in DOMAIN tree \ {<<>>} :
        /\ tree[path].file_count = Len(Below(path, out))
        /\ tree[path].total_size = SumPos(Below(path, out))

C3_Witness ==
    /\ completed = "tree"
    /\ \E path \in DOMAIN tree :
         /\ Len(path) = 3 /\ tree[path].file_count = 1
         /\ tree[SubSeq(path, 1, 2)].file_count = 2
         /\ tree[SubSeq(path, 1, 1)].file_count = 3

\* C4 as claimed: a run that completes after a run that completed downloads
\* nothing and skips every object, whatever sizes the listing gives.
C4_SecondRunSkipsAll ==
    (completed = "download" /\ runs >= 2 /\ prevOk) =>
        downloaded = 0 /\ skipped = total

\* C4 amended: a run that completes after a run that completed downloads
\* nothing and skips every object when the listing gives every object's size
\* and no filesystem error hits a size check.
C4_SecondRunSkipsSized ==
    (/\ completed = "download" /\ runs >= 2 /\ prevOk
     /\ \A i \in DOMAIN out : out[i].size >= 0
     /\ ~statFault) =>
        downloaded = 0 /\ skipped = total

C4_Witness ==
    /\ completed = "download" /\ runs >= 2 /\ prevOk /\ ~statFault
    /\ total = 2 /\ skipped = 2
    /\ \E i \in DOMAIN out : out[i].size = 0
    /\ \E i \in DOMAIN out : out[i].size > 0

\* C5: download_object skips, issuing no GET, exactly when the size is known,
\* the local file exists, its length was read without error and equals the
\* size; otherwise it issues exactly one GET and, when that GET does not
\* raise, returns downloaded = true.
C5_SkipIffSameSize ==
    last.result # "" =>
      LET same == /\ last.size # -1
                  /\ last.before # None
                  /\ ~last.oserror
                  /\ Get(last.before) = last.size
      IN /\ last.result = "skip" <=> same
         /\ last.result = "skip" => gets = last.gets0
         /\ last.result # "skip" =>
              last.result \in {"get", "raise"} /\ gets = last.gets0 + 1

C5_Witness ==
    /\ last.result = "get" /\ last.before # None /\ last.size >= 0
    /\ Get(last.before) > last.size
    /\ skipped >= 1

\* A step in which a request fails: a listing request that brings no page, or
\* a download_object call whose GET raises
FailureStep ==
    \/ Len(reqs') > Len(pages') /\ reqs' # reqs
    \/ last' # last /\ last'.result = "raise"

\* C6: a failing listing request or fetch raises out of the walk at once; from
\* there the process only exits with code 2, with no further request and no
\* change to the destination; the files written to the end earlier in the run
\* are still whole.
C6_FirstFailureStops ==
    /\ [][FailureStep => pc' = "raised" /\ err' # ""]_vars
    /\ [][pc = "raised" =>
            /\ pc' = "exit" /\ exitCode' = Some(2)
            /\ UNCHANGED <<reqs, pages, out, gets, fs>>]_vars
    /\ [](pc = "raised" =>
            \A k \in written \ (IF err = "get" THEN {last.key} ELSE {}) :
                k \in DOMAIN fs /\ fs[k] = BodyLen(k))

C6_Witness ==
    /\ pc = "raised" /\ err = "get" /\ written # {} /\ downloaded = 1
    /\ last.key \notin written
    /\ last.key \in DOMAIN fs /\ fs[last.key] < BodyLen(last.key)

\* C7: the process exits with 1 exactly when none of --list, --tree, --all,
\* --prefix is given, and then without any request; with 2 exactly when the
\* selected mode raised; with 0 exactly when it ran to its end; and only the
\* selected mode acts.
C7_ExitCodes ==
    /\ mode # "list" => count = 0 /\ total_bytes = 0
    /\ mode # "tree" => lines = <<>> /\ DOMAIN tree = {<<>>}
    /\ mode # "download" => gets = 0 /\ total = 0 /\ fs = NoFiles
    /\ pc = "exit" =>
         /\ exitCode \in {Some(0), Some(1), Some(2)}
         /\ exitCode = Some(1) <=>
              (~args.list /\ ~args.tree /\ ~args.all /\ args.prefix = None)
         /\ exitCode = Some(1) => reqs = <<>> /\ gets = 0 /\ mode = ""
         /\ exitCode = Some(2) <=> err # ""
         /\ exitCode = Some(0) <=> (completed # "" /\ completed = mode /\ err = "")

C7_Witness ==
    /\ pc = "exit" /\ exitCode = Some(2) /\ mode = "tree"
    /\ Len(pages) = 1 /\ Len(reqs) = 2 /\ args.all

\* C8: the first request carries no token, each later one the next_token of
\* the page before it, no request follows a page that is not truncated, and
\* no request after the first asks for the first page again.
C8_WalkNeverRestarts ==
    /\ reqs # <<>> => reqs[1] = None
    /\ \A i \in 2..Len(reqs) : reqs[i] = pages[i - 1].next_token
    /\ \A i \in DOMAIN pages : i < Len(reqs) => pages[i].is_truncated
    /\ \A i \in 2..Len(reqs) : reqs[i] # None

\* C9: download_object never skips an object whose local file is shorter than
\* the object, and after a run that completes every listed object's local
\* file has the object's length.
C9_TruncatedIsRefetched ==
    /\ (last.result # "" /\ last.before # None
        /\ Get(last.before) < BodyLen(last.key)) => last.result # "skip"
    /\ completed = "download" =>
         \A i \in DOMAIN out :
            out[i].key \in DOMAIN fs /\ fs[out[i].key] = BodyLen(out[i].key)

C9_Witness ==
    /\ completed = "download" /\ runs >= 2 /\ ~prevOk
    /\ last.key \in truncated /\ last.result = "get" /\ last.size >= 0
    /\ last.before # None /\ Get(last.before) < BodyLen(last.key)
    /\ fs[last.key] = BodyLen(last.key)

\* C10: print_tree writes one line per node, and the lines are the same
\* whatever order build_tree received the same entries in.
C10_PrintOrderIndependent ==
    completed = "tree" =>
      /\ Len(lines) = Cardinality(DOMAIN tree)
      /\ \A es \in Orders(out) :
           print_tree(BuildFrom(NewRoot(Prefix), Prefix, es),
                      base_label(Prefix), args.ascii) = lines

============================================================================
